---- MODULE Spec2Model ----
(***************************************************************************)
(* A model of the pretty printer of src/ast.ts: prettyPrint(node, options) *)
(* and the print functions it dispatches to.  Strings are sequences of     *)
(* one-character strings, so that line lengths, separators, indentation    *)
(* and trimming are computed character by character as the code does.     *)
(***************************************************************************)
EXTENDS Integers, Sequences, FiniteSets, TLC

VARIABLES
    sourceCode,     \* the ambient source text read by printComment / printClassDeclaration
    node,           \* the tree handed to prettyPrint
    options,        \* the options object handed to prettyPrint
    result,         \* what prettyPrint(node, options) returned or threw
    resultDefault,  \* what prettyPrint(node) returned or threw
    resultAgain,    \* what a second prettyPrint(node, options) returned or threw
    pc              \* position of the caller

vars == <<sourceCode, node, options, result, resultDefault, resultAgain, pc>>

(***************************************************************************)
(* JavaScript values and string primitives                                 *)
(***************************************************************************)

\* An option or a child that is left out is a field the record does not have
Has(r, f) == f \in DOMAIN r

\* the text "undefined", which is what undefined becomes in a concatenation
sUndefined == <<"u", "n", "d", "e", "f", "i", "n", "e", "d">>

\* the outcome of a call: a string, the value undefined, or a thrown error
Str(s) == [k |-> "string", s |-> s]
Undef == [k |-> "undefined", s |-> <<>>]
Throw(e) == [k |-> e, s |-> <<>>]
NotCalled == [k |-> "none", s |-> <<>>]

IsErr(r) == r.k \notin {"string", "undefined", "none"}

\* ToString of a value inside a template literal or a += concatenation
ToStr(r) == IF r.k = "undefined" THEN sUndefined ELSE r.s

\* a + b / `${a}${b}`: operands are evaluated left to right, a throw propagates
Cat(a, b) ==
    IF IsErr(a) THEN a
    ELSE IF IsErr(b) THEN b
    ELSE Str(ToStr(a) \o ToStr(b))

Cat3(a, b, c) ==
    IF IsErr(a) THEN a
    ELSE IF IsErr(b) THEN b
    ELSE IF IsErr(c) THEN c
    ELSE Str(ToStr(a) \o ToStr(b) \o ToStr(c))

Cat4(a, b, c, d) ==
    IF IsErr(a) THEN a
    ELSE IF IsErr(b) THEN b
    ELSE IF IsErr(c) THEN c
    ELSE IF IsErr(d) THEN d
    ELSE Str(ToStr(a) \o ToStr(b) \o ToStr(c) \o ToStr(d))

\* Array.prototype.join: undefined elements become the empty string
RECURSIVE JoinFrom(_, _, _)
JoinFrom(rs, sep, i) ==
    IF i > Len(rs) THEN Str(<<>>)
    ELSE LET el == IF rs[i].k = "undefined" THEN Str(<<>>) ELSE rs[i]
         IN  IF i = Len(rs) THEN el
             ELSE Cat3(el, Str(sep), JoinFrom(rs, sep, i + 1))

\* Array.prototype.map(...).join(sep): the first throw of the map propagates
Join(rs, sep) == JoinFrom(rs, sep, 1)

\* String.prototype.repeat
RECURSIVE Repeat(_, _)
Repeat(s, n) == IF n <= 0 THEN <<>> ELSE s \o Repeat(s, n - 1)

Min(a, b) == IF a < b THEN a ELSE b

Max(a, b) == IF a > b THEN a ELSE b

Clamp(i, n) == Min(Max(i, 0), n)

\* String.prototype.substring: both offsets are clamped to [0, length] and
\* swapped when start > end; it never throws
Substring(s, start, end) ==
    LET a == Clamp(start, Len(s))
        b == Clamp(end, Len(s))
    IN  SubSeq(s, Min(a, b) + 1, Max(a, b))

WhiteSpace == {" ", "\t", "\n"}

RECURSIVE TrimStart(_)
TrimStart(s) ==
    IF s # <<>> /\ s[1] \in WhiteSpace THEN TrimStart(Tail(s)) ELSE s

RECURSIVE TrimEnd(_)
TrimEnd(s) ==
    IF s # <<>> /\ s[Len(s)] \in WhiteSpace
    THEN TrimEnd(SubSeq(s, 1, Len(s) - 1))
    ELSE s

\* String.prototype.trim
Trim(s) == TrimEnd(TrimStart(s))

(***************************************************************************)
(* Flags and options (src/ast.ts lines 29-52, 265-284)                     *)
(***************************************************************************)

\* r.f & bit for a one-bit mask; undefined & bit is 0
HasBit(r, f, bit) == Has(r, f) /\ (r[f] \div bit) % 2 = 1

\* a boolean option used as a condition: undefined is falsy
Truthy(r, f) == Has(r, f) /\ r[f] = TRUE

LineBreakFlags == [None |-> 0, Before |-> 1, After |-> 2, Both |-> 4]

CommentTypeFlags ==
    [None |-> 0, SingleLine |-> 1, Multiline |-> 2, Html |-> 4, JsDoc |-> 8, All |-> 15]

CommentPlacementFlags == [None |-> 0, Before |-> 1, After |-> 2]

CommentFormat ==
    [Multiline |-> "multiline", SingleLine |-> "singleline", Html |-> "html", JsDoc |-> "jsdoc"]

defaultOptions ==
    [printWidth |-> 80,
     tabWidth |-> 2,
     useTabs |-> FALSE,
     lineBreak |-> FALSE,
     commentPlacement |-> "after",
     commentFormat |-> CommentFormat.Multiline,
     commentTypes |-> CommentTypeFlags.All,
     commentPlacementFlag |-> CommentPlacementFlags.After]

\* the indentation as tabWidth tabs when useTabs is set
indentationPerWidth(o) ==
    IF ~Has(o, "tabWidth") THEN Str(<<>>)
    ELSE IF o.tabWidth < 0 THEN Throw("RangeError")
    ELSE Str(Repeat(IF Truthy(o, "useTabs") THEN <<"\t">> ELSE <<" ">>, o.tabWidth))

\* const indentation = useTabs ? '\t' : ' '.repeat(tabWidth);
\* repeat throws a RangeError on a negative count, repeat(undefined) is ''
indentation(o) ==
    IF Truthy(o, "useTabs") THEN Str(<<"\t">>)
    ELSE IF ~Has(o, "tabWidth") THEN Str(<<>>)
    ELSE IF o.tabWidth < 0 THEN Throw("RangeError")
    ELSE Str(Repeat(<<" ">>, o.tabWidth))

(***************************************************************************)
(* Text constants of the print functions                                   *)
(***************************************************************************)

sSpace == <<" ">>
sNewline == <<"\n">>
sSemicolon == <<";">>
sCommaSpace == <<",", " ">>
sIf == <<"i", "f", " ", "(">>
sElse == <<" ", "e", "l", "s", "e", " ">>
sFunction == <<"f", "u", "n", "c", "t", "i", "o", "n", " ">>
sClass == <<"c", "l", "a", "s", "s", " ">>
sConstructorName == <<"c", "o", "n", "s", "t", "r", "u", "c", "t", "o", "r">>
sStaticName == <<"s", "t", "a", "t", "i", "c">>
sStatic == <<"s", "t", "a", "t", "i", "c", " ">>
sReturn == <<"r", "e", "t", "u", "r", "n">>
sThis == <<"t", "h", "i", "s">>
sSpread == <<".", ".", ".">>
sArrow == <<")", " ", "=", ">", " ">>
sQuestion == <<" ", "?", " ">>
sColon == <<" ", ":", " ">>
sPropertyColon == <<":", " ">>

\* the opening and closing text printComment puts around the comment text
CommentOpen(format) ==
    CASE format = CommentFormat.Multiline -> <<"/", "*", " ">>
      [] format = CommentFormat.SingleLine -> <<"/", "/", " ">>
      [] format = CommentFormat.Html -> <<"<", "!", "-", "-", " ">>
      [] format = CommentFormat.JsDoc -> <<"/", "*", "*", " ">>

CommentClose(format) ==
    CASE format = CommentFormat.Multiline -> <<" ", "*", "/">>
      [] format = CommentFormat.SingleLine -> <<>>
      [] format = CommentFormat.Html -> <<" ", "-", "-", ">">>
      [] format = CommentFormat.JsDoc -> <<" ", "*", "/">>

CommentFormats ==
    {CommentFormat.Multiline, CommentFormat.SingleLine, CommentFormat.Html, CommentFormat.JsDoc}

(***************************************************************************)
(* collectComments of ./comments, which printClassDeclaration calls: the   *)
(* raw comments of the source text that lie inside [start, end), found by  *)
(* scanning the text for "/* text */" and "// text" and reported as the    *)
(* offsets of the text between the markers.                                *)
(***************************************************************************)

StartsAt(s, i, pat) ==
    /\ i + Len(pat) - 1 <= Len(s)
    /\ \A j \in 1..Len(pat) : s[i + j - 1] = pat[j]

\* first index >= i at which pat starts, or 0
RECURSIVE IndexOf(_, _, _)
IndexOf(s, pat, i) ==
    IF i + Len(pat) - 1 > Len(s) THEN 0
    ELSE IF StartsAt(s, i, pat) THEN i
    ELSE IndexOf(s, pat, i + 1)

\* the raw comments of s from 1-based position i on, as 0-based [start, end)
RECURSIVE ScanComments(_, _)
ScanComments(s, i) ==
    IF i > Len(s) THEN <<>>
    ELSE IF StartsAt(s, i, <<"/", "*", " ">>)
    THEN LET close == IndexOf(s, <<" ", "*", "/">>, i + 3)
         IN  IF close = 0 THEN <<>>
             ELSE <<[start |-> i + 2, end |-> close - 1]>>
                      \o ScanComments(s, close + 3)
    ELSE IF StartsAt(s, i, <<"/", "/", " ">>)
    THEN LET eol == IndexOf(s, sNewline, i + 3)
             stop == IF eol = 0 THEN Len(s) + 1 ELSE eol
         IN  <<[start |-> i + 2, end |-> stop - 1]>> \o ScanComments(s, stop)
    ELSE ScanComments(s, i + 1)

collectComments(src, start, end) ==
    SelectSeq(ScanComments(src, 1), LAMBDA c : start <= c.start /\ c.end <= end)

(***************************************************************************)
(* The print functions (src/ast.ts lines 287-735)                          *)
(***************************************************************************)

RECURSIVE prettyPrint(_, _)
RECURSIVE printStatement(_, _, _)
RECURSIVE printBlockStatement(_, _)
RECURSIVE printBody(_, _, _)
RECURSIVE printClassElement(_, _)

\* the `if (commentPlacementFlag & CommentPlacementFlags.After)` suffix
After(o, s) ==
    IF HasBit(o, "commentPlacementFlag", CommentPlacementFlags.After)
    THEN Str(s) ELSE Str(<<>>)

\* `${indentation}...`: the indentation is computed first, so a throw of
\* repeat() precedes everything else the function does
Indented(o, r) ==
    IF IsErr(indentation(o)) THEN indentation(o)
    ELSE IF IsErr(r) THEN r
    ELSE Str(ToStr(indentation(o)) \o ToStr(r))

\* a function that computes the indentation and does not use it
Unindented(o, r) == IF IsErr(indentation(o)) THEN indentation(o) ELSE r

\* nodes.map((n) => prettyPrint(n, options))
printAll(nodes, o) == [i \in 1..Len(nodes) |-> prettyPrint(nodes[i], o)]

printComment(comment, o) ==
    Unindented(o,
        IF Has(o, "commentFormat") /\ o.commentFormat \in CommentFormats
        THEN Cat(indentation(o),
                 Str(CommentOpen(o.commentFormat)
                     \o Substring(sourceCode, comment.start, comment.end)
                     \o CommentClose(o.commentFormat) \o sNewline))
        ELSE Undef)

\* the forEach over a Program's or a block's body, from entry i on
printBody(body, o, i) ==
    IF i > Len(body) THEN Str(<<>>)
    ELSE Cat(IF body[i].type = "Comment"
             THEN printComment(body[i], o)
             ELSE printStatement(body[i], o, i = Len(body)),
             printBody(body, o, i + 1))

\* printProgram returning the output without trimming it
printProgramUntrimmed(program, o) == Unindented(o, printBody(program.body, o, 1))

printProgram(program, o) ==
    LET output == Unindented(o, printBody(program.body, o, 1))
    IN  IF IsErr(output) THEN output ELSE Str(Trim(ToStr(output)))

printIdentifier(identifier, o) == Indented(o, Str(identifier.name))

printLiteral(literal, o) == Indented(o, Str(literal.raw))

printThisExpression(thisExpression, o) == Indented(o, Str(sThis))

printSpreadElement(spreadElement, o) ==
    Indented(o, Cat(Str(sSpread), prettyPrint(spreadElement.argument, o)))

printExpressionStatement(expressionStatement, o) ==
    Cat(Indented(o, prettyPrint(expressionStatement.expression, o)),
        After(o, sSemicolon))

printVariableDeclarator(variableDeclarator, o) ==
    Unindented(o,
        Cat3(prettyPrint(variableDeclarator.id, o),
             IF Has(variableDeclarator, "init")
             THEN Cat(Str(<<" ", "=", " ">>), prettyPrint(variableDeclarator.init, o))
             ELSE Str(<<>>),
             After(o, sSemicolon)))

printVariableDeclaration(variableDeclaration, o) ==
    Cat(Indented(o,
            Cat(Str(variableDeclaration.kind \o sSpace),
                Join([i \in 1..Len(variableDeclaration.declarations) |->
                         printVariableDeclarator(variableDeclaration.declarations[i], o)],
                     sCommaSpace))),
        After(o, sSemicolon))

\* printStatement is called here without its third argument: isLast is undefined
printIfStatement(ifStatement, o) ==
    Cat4(Indented(o, Cat3(Str(sIf), prettyPrint(ifStatement.test, o), Str(<<")">>))),
         After(o, sSpace),
         printStatement(ifStatement.consequent, o, FALSE),
         IF Has(ifStatement, "alternate")
         THEN Cat(Str(sElse), printStatement(ifStatement.alternate, o, FALSE))
         ELSE Str(<<>>))

printBlockStatement(blockStatement, o) ==
    LET lineBreak == IF Truthy(o, "lineBreak") THEN Str(sNewline) ELSE Str(<<>>)
    IN  Cat4(Indented(o, Cat(Str(<<"{">>), lineBreak)),
             printBody(blockStatement.body, o, 1),
             lineBreak,
             Cat(indentation(o), Str(<<"}">>)))

printParams(params, o) == Join(printAll(params, o), sCommaSpace)

printFunctionDeclaration(functionDeclaration, o) ==
    Cat3(Indented(o,
             Cat3(Str(sFunction), prettyPrint(functionDeclaration.id, o),
                  Cat3(Str(<<"(">>), printParams(functionDeclaration.params, o), Str(<<")">>)))),
         After(o, sSpace),
         printBlockStatement(functionDeclaration.body, o))

\* the comments collectComments finds in the element's range, each in the
\* configured format, joined by newlines
printCollected(element, o) ==
    LET found == collectComments(sourceCode, element.start, element.end)
    IN  Join([i \in 1..Len(found) |->
                 IF Has(o, "commentFormat") /\ o.commentFormat \in CommentFormats
                 THEN Str(CommentOpen(o.commentFormat)
                          \o Substring(sourceCode, found[i].start, found[i].end)
                          \o CommentClose(o.commentFormat))
                 ELSE Undef],
             sNewline)

\* bodyText is computed before the class name is printed
printClassDeclaration(classDeclaration, o) ==
    LET classBody == classDeclaration.body
        bodyText ==
            Join([i \in 1..Len(classBody.body) |->
                     IF classBody.body[i].type = "Comment"
                     THEN printComment(classBody.body[i], o)
                     ELSE Cat4(Cat(indentation(o), printCollected(classBody.body[i], o)),
                               Str(sNewline),
                               indentation(o),
                               prettyPrint(classBody.body[i], o))],
                 sNewline)
    IN  Unindented(o,
            IF IsErr(bodyText) THEN bodyText
            ELSE Cat4(Cat3(indentation(o), Str(sClass), prettyPrint(classDeclaration.id, o)),
                      Str(<<" ", "{">>),
                      bodyText,
                      Cat3(Str(sNewline), indentation(o), Str(<<"}">>))))

\* `(${params}) ${printBlockStatement(body)}` of a method or function expression
printParamsAndBody(fn, o) ==
    Cat4(Str(<<"(">>), printParams(fn.params, o), Str(<<")", " ">>),
         printBlockStatement(fn.body, o))

printClassElement(classElement, o) ==
    IF classElement.key.type = "Identifier" /\ classElement.key.name = sConstructorName
    THEN Indented(o, Cat(Str(sConstructorName), printParamsAndBody(classElement.value, o)))
    ELSE IF classElement.key.type = "Identifier" /\ classElement.key.name = sStaticName
    THEN Indented(o, Cat3(Str(sStatic), prettyPrint(classElement.key, o),
                          printParamsAndBody(classElement.value, o)))
    ELSE Indented(o, Cat3(IF classElement.static THEN Str(sStatic) ELSE Str(<<>>),
                          prettyPrint(classElement.key, o),
                          printParamsAndBody(classElement.value, o)))

printFunctionExpression(functionExpression, o) ==
    Indented(o, printParamsAndBody(functionExpression, o))

printReturnStatement(returnStatement, o) ==
    Cat4(Indented(o, Str(sReturn)),
         After(o, sSpace),
         IF Has(returnStatement, "argument")
         THEN Cat(Str(sSpace), prettyPrint(returnStatement.argument, o))
         ELSE Str(<<>>),
         Str(sSemicolon))

\* the newlines a lineBreak bitmask appends to a binary or conditional expression
lineBreakSuffix(expression) ==
    Str((IF HasBit(expression, "lineBreak", LineBreakFlags.Before) THEN sNewline ELSE <<>>)
        \o (IF HasBit(expression, "lineBreak", LineBreakFlags.After) THEN sNewline ELSE <<>>))

printBinaryExpression(binaryExpression, o) ==
    Unindented(o,
        Cat4(prettyPrint(binaryExpression.left, o),
             After(o, sSpace),
             Cat(Str(binaryExpression.operator \o sSpace),
                 prettyPrint(binaryExpression.right, o)),
             lineBreakSuffix(binaryExpression)))

printUnaryExpression(unaryExpression, o) ==
    Unindented(o,
        Cat3(Str(unaryExpression.operator),
             After(o, sSpace),
             prettyPrint(unaryExpression.argument, o)))

\* printCallExpression putting every argument on a line of its own
printCallExpressionBroken(callExpression, o) ==
    Unindented(o,
        Cat3(prettyPrint(callExpression.callee, o),
             After(o, sSpace),
             Cat3(Str(<<"(">>),
                  Join(printAll(callExpression.arguments, o), <<",", "\n">>),
                  Str(<<")">>))))

printCallExpression(callExpression, o) ==
    Unindented(o,
        Cat3(prettyPrint(callExpression.callee, o),
             After(o, sSpace),
             Cat3(Str(<<"(">>),
                  Join(printAll(callExpression.arguments, o), sCommaSpace),
                  Str(<<")">>))))

printMemberExpression(memberExpression, o) ==
    Unindented(o,
        Cat3(prettyPrint(memberExpression.object, o),
             After(o, sSpace),
             Cat3(Str(IF memberExpression.computed THEN <<"[">> ELSE <<".">>),
                  prettyPrint(memberExpression.property, o),
                  Str(IF memberExpression.computed THEN <<"]">> ELSE <<>>))))

\* null elements (elisions) are filtered out before printing
printArrayExpression(arrayExpression, o) ==
    LET elements == SelectSeq(arrayExpression.elements, LAMBDA e : e.type # "null")
    IN  Unindented(o,
            Cat3(Str(<<"[">>), Join(printAll(elements, o), sCommaSpace), Str(<<"]">>)))

\* the template ends after the properties: no closing brace is written
printObjectExpression(objectExpression, o) ==
    Unindented(o,
        Cat(Str(<<"{">>), Join(printAll(objectExpression.properties, o), sCommaSpace)))

printProperty(property, o) ==
    Unindented(o,
        Cat4(prettyPrint(property.key, o),
             After(o, sSpace),
             Str(sPropertyColon),
             prettyPrint(property.value, o)))

printArrowFunctionExpression(arrowFunctionExpression, o) ==
    Cat3(Indented(o,
             Cat3(Str(<<"(">>), printParams(arrowFunctionExpression.params, o), Str(sArrow))),
         After(o, sSpace),
         IF arrowFunctionExpression.body.type = "BlockStatement"
         THEN printBlockStatement(arrowFunctionExpression.body, o)
         ELSE prettyPrint(arrowFunctionExpression.body, o))

printConditionalExpression(conditionalExpression, o) ==
    Unindented(o,
        Cat4(prettyPrint(conditionalExpression.test, o),
             Cat(Str(sQuestion), prettyPrint(conditionalExpression.consequent, o)),
             Cat(Str(sColon), prettyPrint(conditionalExpression.alternate, o)),
             lineBreakSuffix(conditionalExpression)))

printStatement(statement, o, isLast) ==
    LET output ==
            CASE statement.type = "ExpressionStatement" -> printExpressionStatement(statement, o)
              [] statement.type = "VariableDeclaration" -> printVariableDeclaration(statement, o)
              [] statement.type = "IfStatement" -> printIfStatement(statement, o)
              [] statement.type = "BlockStatement" -> printBlockStatement(statement, o)
              [] statement.type = "FunctionDeclaration" -> printFunctionDeclaration(statement, o)
              [] statement.type = "ClassDeclaration" -> printClassDeclaration(statement, o)
              [] statement.type = "ReturnStatement" -> printReturnStatement(statement, o)
              [] OTHER -> Throw("Error")
    IN  Unindented(o, Cat(output, IF ~isLast THEN Str(sNewline) ELSE Str(<<>>)))

\* printClassBody is dispatched to and defined nowhere: the call throws
prettyPrint(n, o) ==
    CASE n.type = "Program" -> printProgram(n, o)
      [] n.type = "ExpressionStatement" -> printExpressionStatement(n, o)
      [] n.type = "VariableDeclaration" -> printVariableDeclaration(n, o)
      [] n.type = "VariableDeclarator" -> printVariableDeclarator(n, o)
      [] n.type = "Identifier" -> printIdentifier(n, o)
      [] n.type = "IfStatement" -> printIfStatement(n, o)
      [] n.type = "BlockStatement" -> printBlockStatement(n, o)
      [] n.type = "FunctionDeclaration" -> printFunctionDeclaration(n, o)
      [] n.type = "ClassDeclaration" -> printClassDeclaration(n, o)
      [] n.type = "ClassBody" -> Throw("ReferenceError")
      [] n.type = "MethodDefinition" -> printClassElement(n, o)
      [] n.type = "FunctionExpression" -> printFunctionExpression(n, o)
      [] n.type = "ReturnStatement" -> printReturnStatement(n, o)
      [] n.type = "Literal" -> printLiteral(n, o)
      [] n.type = "BinaryExpression" -> printBinaryExpression(n, o)
      [] n.type = "UnaryExpression" -> printUnaryExpression(n, o)
      [] n.type = "CallExpression" -> printCallExpression(n, o)
      [] n.type = "MemberExpression" -> printMemberExpression(n, o)
      [] n.type = "ArrayExpression" -> printArrayExpression(n, o)
      [] n.type = "ObjectExpression" -> printObjectExpression(n, o)
      [] n.type = "Property" -> printProperty(n, o)
      [] n.type = "ArrowFunctionExpression" -> printArrowFunctionExpression(n, o)
      [] n.type = "ThisExpression" -> printThisExpression(n, o)
      [] n.type = "SpreadElement" -> printSpreadElement(n, o)
      [] n.type = "ConditionalExpression" -> printConditionalExpression(n, o)
      [] n.type = "Comment" -> printComment(n, o)
      [] OTHER -> Throw("Error")

(***************************************************************************)
(* Inputs: source texts, trees and option objects                          *)
(***************************************************************************)

\* bounds of the enumerated inputs
MaxArgs == 5
MaxDepth == 2
MaxComments == 2

\* "const x = 10; // keep": the comment text "keep" is [17, 21)
SrcKeep ==
    <<"c", "o", "n", "s", "t", " ", "x", " ", "=", " ", "1", "0", ";", " ",
      "/", "/", " ", "k", "e", "e", "p">>

\* "class A { m() { /* todo */ } } /* one\ntwo */": the method is [10, 28),
\* "todo" is [19, 23) and the two-line text "one\ntwo" is [34, 41)
SrcClass ==
    <<"c", "l", "a", "s", "s", " ", "A", " ", "{", " ", "m", "(", ")", " ", "{", " ",
      "/", "*", " ", "t", "o", "d", "o", " ", "*", "/", " ", "}", " ", "}", " ",
      "/", "*", " ", "o", "n", "e", "\n", "t", "w", "o", " ", "*", "/">>

Sources == {SrcKeep, SrcClass}

sKeep == <<"k", "e", "e", "p">>
sTodo == <<"t", "o", "d", "o">>
sConst == <<"c", "o", "n", "s", "t">>
sLet == <<"l", "e", "t">>
sLongName == <<"a", "v", "e", "r", "y", "l", "o", "n", "g", "n", "a", "m", "e">>

Identifier(name) == [type |-> "Identifier", name |-> name]
Literal(raw) == [type |-> "Literal", raw |-> raw]
Comment(value, start, end) ==
    [type |-> "Comment", value |-> value, start |-> start, end |-> end]
Program(body) == [type |-> "Program", body |-> body]
BlockStatement(body) == [type |-> "BlockStatement", body |-> body]
ExpressionStatement(expression) ==
    [type |-> "ExpressionStatement", expression |-> expression]
VariableDeclarator(id) == [type |-> "VariableDeclarator", id |-> id]
VariableDeclaratorInit(id, init) ==
    [type |-> "VariableDeclarator", id |-> id, init |-> init]
VariableDeclaration(kind, declarations) ==
    [type |-> "VariableDeclaration", kind |-> kind, declarations |-> declarations]
IfStatement(test, consequent) ==
    [type |-> "IfStatement", test |-> test, consequent |-> consequent]
IfElseStatement(test, consequent, alternate) ==
    [type |-> "IfStatement", test |-> test, consequent |-> consequent,
     alternate |-> alternate]
FunctionDeclaration(id, params, body) ==
    [type |-> "FunctionDeclaration", id |-> id, params |-> params, body |-> body]
FunctionExpression(params, body) ==
    [type |-> "FunctionExpression", params |-> params, body |-> body]
ClassElement(key, value, static, start, end) ==
    [type |-> "MethodDefinition", key |-> key, value |-> value, static |-> static,
     start |-> start, end |-> end]
ClassBody(body) == [type |-> "ClassBody", body |-> body]
ClassDeclaration(id, body) == [type |-> "ClassDeclaration", id |-> id, body |-> body]
ReturnStatement == [type |-> "ReturnStatement"]
ReturnArgument(argument) == [type |-> "ReturnStatement", argument |-> argument]
BinaryExpression(operator, left, right) ==
    [type |-> "BinaryExpression", operator |-> operator, left |-> left, right |-> right]
BinaryLineBreak(operator, left, right, lineBreak) ==
    [type |-> "BinaryExpression", operator |-> operator, left |-> left, right |-> right,
     lineBreak |-> lineBreak]
UnaryExpression(operator, argument) ==
    [type |-> "UnaryExpression", operator |-> operator, argument |-> argument]
CallExpression(callee, arguments) ==
    [type |-> "CallExpression", callee |-> callee, arguments |-> arguments]
MemberExpression(object, property, computed) ==
    [type |-> "MemberExpression", object |-> object, property |-> property,
     computed |-> computed]
ArrayExpression(elements) == [type |-> "ArrayExpression", elements |-> elements]
ObjectExpression(properties) == [type |-> "ObjectExpression", properties |-> properties]
Property(key, value) == [type |-> "Property", key |-> key, value |-> value]
ArrowFunctionExpression(params, body) ==
    [type |-> "ArrowFunctionExpression", params |-> params, body |-> body]
ThisExpression == [type |-> "ThisExpression"]
SpreadElement(argument) == [type |-> "SpreadElement", argument |-> argument]
ConditionalExpression(test, consequent, alternate) ==
    [type |-> "ConditionalExpression", test |-> test, consequent |-> consequent,
     alternate |-> alternate]
Null == [type |-> "null"]

\* a node kind prettyPrint has no case for, with and without a body
Unmapped == [type |-> "WithStatement"]
UnmappedBlock(body) == [type |-> "StaticBlock", body |-> body]

idX == Identifier(<<"x">>)
idA == Identifier(<<"a">>)
idB == Identifier(<<"b">>)
idF == Identifier(<<"f">>)
idM == Identifier(<<"m">>)
idLong == Identifier(sLongName)
lit1 == Literal(<<"1">>)
lit10 == Literal(<<"1", "0">>)

\* the arguments calls are built from: distinct identifiers and literals
ArgumentPool ==
    <<idA, lit1, idB, lit10, Identifier(<<"c">>), Identifier(<<"d">>),
      Identifier(<<"e">>), Literal(<<"2">>)>>

CallWith(n) == CallExpression(idF, SubSeq(ArgumentPool, 1, n))

Calls == {CallWith(n) : n \in 0..MaxArgs}

cKeep == Comment(sKeep, 17, 21)
cTodo == Comment(sTodo, 19, 23)
\* a comment whose text spans two physical lines
sOneTwo == <<"o", "n", "e", "\n", "t", "w", "o">>
cMulti == Comment(sOneTwo, 34, 41)
\* ranges that do not fit the source: start > end, start < 0, end > length
cSwapped == Comment(sKeep, 21, 17)
cNegative == Comment(sKeep, 0 - 4, 4)
cBeyond == Comment(sTodo, 19, 40)

MalformedComments == {cSwapped, cNegative, cBeyond}

constX10 == VariableDeclaration(sConst, <<VariableDeclaratorInit(idX, lit10)>>)
letAB == VariableDeclaration(sLet, <<VariableDeclarator(idA), VariableDeclaratorInit(idB, lit1)>>)
aPlus1 == BinaryExpression(<<"+">>, idA, lit1)
returnA == ReturnArgument(aPlus1)

\* blocks nested d deep: a declaration followed by the next block
RECURSIVE NestedBlock(_)
NestedBlock(d) ==
    IF d = 0 THEN BlockStatement(<<returnA>>)
    ELSE BlockStatement(<<constX10, NestedBlock(d - 1)>>)

\* n comments followed by a statement and a block holding one more comment
RECURSIVE CommentList(_)
CommentList(n) == IF n = 0 THEN <<>> ELSE <<cKeep>> \o CommentList(n - 1)

methodM ==
    ClassElement(idM, FunctionExpression(<<>>, BlockStatement(<<cTodo>>)), FALSE, 10, 28)
methodEmpty ==
    ClassElement(idM, FunctionExpression(<<idA>>, BlockStatement(<<>>)), TRUE, 0, 8)
constructorA ==
    ClassElement(Identifier(sConstructorName),
                 FunctionExpression(<<idA>>, BlockStatement(<<returnA>>)), FALSE, 0, 8)

Expressions ==
    Calls \cup
    {idX, lit10, idLong, aPlus1,
     BinaryLineBreak(<<"+">>, idA, lit1, LineBreakFlags.Before),
     BinaryLineBreak(<<"+">>, idA, lit1, LineBreakFlags.After),
     BinaryLineBreak(<<"+">>, idA, lit1, LineBreakFlags.Both),
     UnaryExpression(<<"!">>, idX),
     MemberExpression(idA, idB, FALSE),
     MemberExpression(idA, idB, TRUE),
     ArrayExpression(<<idA, Null, lit1>>),
     ObjectExpression(<<Property(idA, lit1)>>),
     ArrowFunctionExpression(<<idA>>, idX),
     ArrowFunctionExpression(<<>>, BlockStatement(<<returnA>>)),
     ThisExpression,
     SpreadElement(idA),
     ConditionalExpression(idA, lit1, idB),
     FunctionExpression(<<idA, idB>>, BlockStatement(<<>>))}

Statements ==
    {NestedBlock(d) : d \in 0..MaxDepth} \cup
    {ExpressionStatement(idX),
     ExpressionStatement(CallWith(2)),
     constX10, letAB,
     IfStatement(idX, NestedBlock(0)),
     IfElseStatement(idX, ExpressionStatement(idA), returnA),
     BlockStatement(<<>>),
     BlockStatement(<<cKeep>>),
     BlockStatement(<<cTodo>>),
     FunctionDeclaration(idF, <<idA, idB>>, BlockStatement(<<returnA>>)),
     ClassDeclaration(idA, ClassBody(<<methodM>>)),
     ClassDeclaration(idA, ClassBody(<<cKeep, constructorA, methodEmpty>>)),
     ReturnStatement, returnA}

Programs ==
    {Program(CommentList(n) \o <<constX10, BlockStatement(<<cKeep>>)>>) :
         n \in 0..MaxComments} \cup
    {Program(<<>>),
     Program(<<constX10, cKeep>>),
     Program(<<cKeep>>),
     Program(<<cTodo, cKeep>>),
     Program(<<letAB, ExpressionStatement(aPlus1)>>),
     Program(<<ExpressionStatement(BinaryLineBreak(<<"+">>, idA, lit1, LineBreakFlags.After))>>),
     Program(<<ClassDeclaration(idA, ClassBody(<<methodM>>))>>),
     Program(<<ClassDeclaration(idA, ClassBody(<<cTodo, methodEmpty>>))>>),
     Program(<<NestedBlock(1), returnA>>),
     Program(<<ExpressionStatement(
                   BinaryLineBreak(<<"+">>, idA, lit1,
                                   LineBreakFlags.Before + LineBreakFlags.After))>>),
     Program(<<cMulti>>),
     Program(<<constX10, BlockStatement(<<cMulti>>)>>)}

\* comments printed on their own and comments whose range does not fit
CommentTrees ==
    {cKeep, cTodo, cMulti} \cup MalformedComments \cup
    {Program(<<c>>) : c \in MalformedComments}

\* trees holding a node of an unmapped kind at some depth
UnmappedTrees ==
    {Unmapped,
     Program(<<Unmapped>>),
     ExpressionStatement(Unmapped),
     CallExpression(idF, <<idA, Unmapped>>),
     BlockStatement(<<BlockStatement(<<Unmapped>>)>>),
     IfStatement(idX, Unmapped),
     ClassBody(<<>>),
     FunctionDeclaration(idF, <<>>, UnmappedBlock(<<returnA>>)),
     Program(<<FunctionDeclaration(idF, <<>>, UnmappedBlock(<<>>))>>)}

Trees == Expressions \cup Statements \cup Programs \cup CommentTrees \cup UnmappedTrees

\* the values a caller gives each option besides its default
OptionFields ==
    {"printWidth", "tabWidth", "useTabs", "lineBreak", "commentPlacement",
     "commentFormat", "commentTypes", "commentPlacementFlag"}

OptionValues ==
    [printWidth |-> {0, 10, 80},
     tabWidth |-> {0 - 1, 0, 2},
     useTabs |-> {FALSE, TRUE},
     lineBreak |-> {FALSE, TRUE},
     commentPlacement |-> {"after", "before"},
     commentFormat |-> CommentFormats,
     commentTypes |-> {CommentTypeFlags.None, CommentTypeFlags.SingleLine, CommentTypeFlags.All},
     commentPlacementFlag |-> {CommentPlacementFlags.None, CommentPlacementFlags.After}]

\* complete option objects that differ from the defaults in at most two options
FullOptions ==
    UNION {{[defaultOptions EXCEPT ![f] = v, ![g] = w] :
                v \in OptionValues[f], w \in OptionValues[g]} :
              f \in OptionFields, g \in OptionFields}

\* option objects that leave options out
EmptyOptions == [x \in {} |-> 0]
OnlyPrintWidth == [printWidth |-> 80]
PartialOptions ==
    {EmptyOptions, OnlyPrintWidth,
     [commentTypes |-> CommentTypeFlags.All],
     [tabWidth |-> 2, commentFormat |-> CommentFormat.SingleLine]}

OptionObjects == FullOptions \cup PartialOptions

(***************************************************************************)
(* The caller: one call with the options object, then either one with the  *)
(* options omitted, or the same call again after the ambient text changed  *)
(***************************************************************************)

Init ==
    /\ sourceCode \in Sources
    /\ node \in Trees
    /\ options \in OptionObjects
    /\ result = NotCalled
    /\ resultDefault = NotCalled
    /\ resultAgain = NotCalled
    /\ pc = "start"

\* prettyPrint(node, options)
PrettyPrintCall ==
    /\ pc = "start"
    /\ result' = prettyPrint(node, options)
    /\ pc' = "called"
    /\ UNCHANGED <<sourceCode, node, options, resultDefault, resultAgain>>

\* prettyPrint(node): the parameter default `options = defaultOptions` applies
PrettyPrintDefault ==
    /\ pc = "called"
    /\ resultDefault' = prettyPrint(node, defaultOptions)
    /\ pc' = "done"
    /\ UNCHANGED <<sourceCode, node, options, result, resultAgain>>

\* the environment assigns another text to the ambient sourceCode
SetSourceCode(text) ==
    /\ pc = "called"
    /\ text # sourceCode
    /\ sourceCode' = text
    /\ pc' = "ambient"
    /\ UNCHANGED <<node, options, result, resultDefault, resultAgain>>

\* prettyPrint(node, options) once more, with the same arguments
PrettyPrintAgain ==
    /\ pc = "ambient"
    /\ resultAgain' = prettyPrint(node, options)
    /\ pc' = "again"
    /\ UNCHANGED <<sourceCode, node, options, result, resultDefault>>

Next ==
    \/ PrettyPrintCall
    \/ PrettyPrintDefault
    \/ \E text \in Sources : SetSourceCode(text)
    \/ PrettyPrintAgain

Spec == Init /\ [][Next]_vars

(***************************************************************************)
(* Reading an output string and a tree, for the properties below           *)
(***************************************************************************)

\* the first call is over and the ambient source text is still what it read
Called == pc \in {"called", "done"}

\* the call with the options object has returned a string
Returned == Called /\ result.k = "string"

\* the lines of s: the pieces between newline characters
Lines(s) ==
    LET breaks == {i \in 1..Len(s) : s[i] = "\n"}
        \* the position of the k-th newline; 0 and Len(s) + 1 bound the text
        Break(k) == IF k = 0 THEN 0
                    ELSE IF k > Cardinality(breaks) THEN Len(s) + 1
                    ELSE CHOOSE i \in breaks : Cardinality({j \in breaks : j < i}) = k - 1
    IN  [k \in 1..(Cardinality(breaks) + 1) |-> SubSeq(s, Break(k - 1) + 1, Break(k) - 1)]

\* the number of positions of s at which pat starts
Count(s, pat) == Cardinality({i \in 1..(Len(s) - Len(pat) + 1) : StartsAt(s, i, pat)})

\* the pieces of s between occurrences of sep
RECURSIVE SplitFrom(_, _, _, _)
SplitFrom(s, sep, i, piece) ==
    IF i > Len(s) THEN <<piece>>
    ELSE IF StartsAt(s, i, sep) THEN <<piece>> \o SplitFrom(s, sep, i + Len(sep), <<>>)
    ELSE SplitFrom(s, sep, i + 1, Append(piece, s[i]))

Split(s, sep) == SplitFrom(s, sep, 1, <<>>)

\* characters that separate tokens: white space, punctuation and operators
Separators ==
    WhiteSpace \cup {"(", ")", "{", "}", "[", "]", ",", ";", ".", ":", "?", "=", "+",
                     "!", "/", "*", "<", ">", "-"}

\* s is one identifier or literal
IsAtomicToken(s) == s # <<>> /\ \A i \in 1..Len(s) : s[i] \notin Separators

MappedKinds ==
    {"Program", "ExpressionStatement", "VariableDeclaration", "VariableDeclarator",
     "Identifier", "IfStatement", "BlockStatement", "FunctionDeclaration",
     "ClassDeclaration", "ClassBody", "MethodDefinition", "FunctionExpression",
     "ReturnStatement", "Literal", "BinaryExpression", "UnaryExpression",
     "CallExpression", "MemberExpression", "ArrayExpression", "ObjectExpression",
     "Property", "ArrowFunctionExpression", "ThisExpression", "SpreadElement",
     "ConditionalExpression", "Comment"}

Optional(n, f) == IF Has(n, f) THEN <<n[f]>> ELSE <<>>

\* the child nodes of a node, in source order
Children(n) ==
    CASE n.type \in {"Program", "BlockStatement", "ClassBody"} -> n.body
      [] n.type = "ExpressionStatement" -> <<n.expression>>
      [] n.type = "VariableDeclaration" -> n.declarations
      [] n.type = "VariableDeclarator" -> <<n.id>> \o Optional(n, "init")
      [] n.type = "IfStatement" -> <<n.test, n.consequent>> \o Optional(n, "alternate")
      [] n.type = "FunctionDeclaration" -> <<n.id>> \o n.params \o <<n.body>>
      [] n.type = "ClassDeclaration" -> <<n.id, n.body>>
      [] n.type = "MethodDefinition" -> <<n.key, n.value>>
      [] n.type \in {"FunctionExpression", "ArrowFunctionExpression"} -> n.params \o <<n.body>>
      [] n.type = "ReturnStatement" -> Optional(n, "argument")
      [] n.type = "BinaryExpression" -> <<n.left, n.right>>
      [] n.type \in {"UnaryExpression", "SpreadElement"} -> <<n.argument>>
      [] n.type = "CallExpression" -> <<n.callee>> \o n.arguments
      [] n.type = "MemberExpression" -> <<n.object, n.property>>
      [] n.type = "ArrayExpression" -> SelectSeq(n.elements, LAMBDA e : e.type # "null")
      [] n.type = "ObjectExpression" -> n.properties
      [] n.type = "Property" -> <<n.key, n.value>>
      [] n.type = "ConditionalExpression" -> <<n.test, n.consequent, n.alternate>>
      [] n.type \in {"Identifier", "Literal", "ThisExpression", "Comment"} -> <<>>
      [] OTHER -> IF Has(n, "body") THEN n.body ELSE <<>>

\* every node of the tree rooted at n, in source order
RECURSIVE NodesOf(_)
RECURSIVE NodesOfAll(_, _)
NodesOf(n) == <<n>> \o NodesOfAll(Children(n), 1)
NodesOfAll(ns, i) ==
    IF i > Len(ns) THEN <<>> ELSE NodesOf(ns[i]) \o NodesOfAll(ns, i + 1)

\* the Comment nodes of the tree, in source order
CommentsOf(n) == SelectSeq(NodesOf(n), LAMBDA c : c.type = "Comment")

\* the texts comments carry
CommentTexts == {sKeep, sTodo}

\* how many Comment nodes of the tree carry the text
Multiplicity(n, text) == Len(SelectSeq(CommentsOf(n), LAMBDA c : c.value = text))

\* a comment's range fits the source text
WellFormed(c, src) == 0 <= c.start /\ c.start <= c.end /\ c.end <= Len(src)

\* the tree's comments are those of the ambient source text: each range fits
\* and holds the comment's text
Consistent(n, src) ==
    \A i \in 1..Len(CommentsOf(n)) :
        LET c == CommentsOf(n)[i]
        IN  WellFormed(c, src) /\ SubSeq(src, c.start + 1, c.end) = c.value

\* a complete options object: no option is left out
Complete(o) == DOMAIN o = OptionFields

(***************************************************************************)
(* Properties                                                              *)
(***************************************************************************)

\* C1 (width respect): whenever prettyPrint returns under a printWidth w > 0,
\* every line of the returned string has at most w characters, unless the
\* line's content is one identifier or literal that is itself longer than w.
C1_WidthRespect ==
    (Returned /\ Has(options, "printWidth") /\ options.printWidth > 0) =>
        \A i \in 1..Len(Lines(result.s)) :
            LET line == Lines(result.s)[i]
            IN  \/ Len(line) <= options.printWidth
                \/ IsAtomicToken(Trim(line)) /\ Len(Trim(line)) > options.printWidth

\* C2 (comment conservation): when a Program whose comments are those of the
\* source text is printed with commentTypes = All, each comment text occurs in
\* the output exactly as many times as Comment nodes of the tree carry it.
C2_CommentConservation ==
    (/\ Returned
     /\ node.type = "Program"
     /\ Has(options, "commentTypes") /\ options.commentTypes = CommentTypeFlags.All
     /\ Consistent(node, sourceCode)) =>
        \A text \in CommentTexts : Count(result.s, text) = Multiplicity(node, text)

\* the commentTypes bit of the kind the configured format renders
FlagOfFormat(format) ==
    CASE format = CommentFormat.SingleLine -> CommentTypeFlags.SingleLine
      [] format = CommentFormat.Multiline -> CommentTypeFlags.Multiline
      [] format = CommentFormat.Html -> CommentTypeFlags.Html
      [] format = CommentFormat.JsDoc -> CommentTypeFlags.JsDoc

\* C3 (comment filter): when a Program is printed under a complete options
\* object, the output holds no comment text if commentTypes excludes the kind
\* of the rendered comments (in particular if it is None), and holds every
\* comment text of the tree if commentTypes retains that kind.
C3_CommentFilter ==
    (/\ Returned
     /\ node.type = "Program"
     /\ Complete(options)
     /\ Consistent(node, sourceCode)) =>
        \A text \in CommentTexts :
            IF HasBit(options, "commentTypes", FlagOfFormat(options.commentFormat))
            THEN Count(result.s, text) >= Multiplicity(node, text)
            ELSE Count(result.s, text) = 0

\* "const x = 10; // keep"
sConstX10Keep == SrcKeep

\* C4 (same-line trailing comment): the Program `const x = 10` followed by the
\* comment `keep`, printed with comment placement After and printWidth 80 (the
\* other options at their defaults, comments in the single-line format),
\* yields exactly `const x = 10; // keep`.
C4_SameLineTrailingComment ==
    (/\ Called
     /\ node = Program(<<constX10, cKeep>>)
     /\ sourceCode = SrcKeep
     /\ options = [defaultOptions EXCEPT !.commentFormat = CommentFormat.SingleLine]
     /\ options.commentPlacement = "after"
     /\ options.commentPlacementFlag = CommentPlacementFlags.After
     /\ options.printWidth = 80) =>
        result = Str(sConstX10Keep)

\* the text a comment is rendered as, without indentation and line end
Rendered(c, format) == CommentOpen(format) \o c.value \o CommentClose(format)

\* C5 (comment-only block): a BlockStatement whose body is one Comment node is
\* printed with the opening brace, the comment and the closing brace on three
\* separate lines, the comment alone on its line, for either value of lineBreak.
C5_CommentOnlyBlock ==
    (/\ Returned
     /\ node.type = "BlockStatement"
     /\ Len(node.body) = 1 /\ node.body[1].type = "Comment"
     /\ Complete(options)
     /\ Consistent(node, sourceCode)) =>
        LET lines == Lines(result.s)
        IN  \E i, j, k \in 1..Len(lines) :
                /\ i < j /\ j < k
                /\ Trim(lines[i]) = <<"{">>
                /\ Trim(lines[j]) = Rendered(node.body[1], options.commentFormat)
                /\ Trim(lines[k]) = <<"}">>

\* the text of an identifier or literal
TokenOf(n) == IF n.type = "Identifier" THEN n.name ELSE n.raw

\* position of the first "(" and of the last ")" of s, or 0
FirstOpen(s) == IndexOf(s, <<"(">>, 1)
LastClose(s) ==
    IF \E i \in 1..Len(s) : s[i] = ")"
    THEN CHOOSE i \in 1..Len(s) : s[i] = ")" /\ \A j \in (i + 1)..Len(s) : s[j] # ")"
    ELSE 0

BetweenParens(s) == SubSeq(s, FirstOpen(s) + 1, LastClose(s) - 1)

\* a call whose arguments are identifiers and literals, printed on its own
IsAtomCall(n) ==
    /\ n.type = "CallExpression"
    /\ n.arguments # <<>>
    /\ \A i \in 1..Len(n.arguments) : n.arguments[i].type \in {"Identifier", "Literal"}

\* C6 (short call stays flat): when a call with identifier or literal
\* arguments is printed and the returned string fits printWidth, the text
\* between the parentheses holds no newline, and splitting it at `, ` gives
\* exactly the arguments' tokens in their original order.
C6_ShortCallStaysFlat ==
    (/\ Returned
     /\ IsAtomCall(node)
     /\ Has(options, "printWidth") /\ Len(result.s) <= options.printWidth) =>
        LET inside == BetweenParens(result.s)
            pieces == Split(inside, sCommaSpace)
        IN  /\ FirstOpen(result.s) > 0 /\ LastClose(result.s) > FirstOpen(result.s)
            /\ Count(inside, sNewline) = 0
            /\ Len(pieces) = Len(node.arguments)
            /\ \A i \in 1..Len(pieces) : Trim(pieces[i]) = TokenOf(node.arguments[i])

\* a call with five arguments was printed and fits the width
C6_Witness ==
    /\ Returned
    /\ IsAtomCall(node) /\ Len(node.arguments) = 5
    /\ Has(options, "printWidth") /\ Len(result.s) <= options.printWidth
    /\ Count(BetweenParens(result.s), sCommaSpace) = 4

\* C7 (documented defaults): prettyPrint(node, {}) and
\* prettyPrint(node, {printWidth: 80}) return what prettyPrint(node) returns.
C7_DocumentedDefaults ==
    (pc = "done" /\ options \in {EmptyOptions, OnlyPrintWidth}) =>
        result = resultDefault

\* the tree holds, at some depth, a node of a kind prettyPrint does not map
HasUnmapped(n) == \E i \in 1..Len(NodesOf(n)) : NodesOf(n)[i].type \notin MappedKinds

\* C8 (unsupported node): a call on a tree that holds a node of an unmapped
\* kind at any depth fails with an error and returns no string.
C8_UnsupportedNode ==
    (Called /\ HasUnmapped(node)) => IsErr(result)

\* C9 (configuration check): a call with printWidth <= 0 or tabWidth < 0 is
\* rejected with an error, for every tree and both values of useTabs.
C9_ConfigurationCheck ==
    (/\ Called
     /\ \/ Has(options, "printWidth") /\ options.printWidth <= 0
        \/ Has(options, "tabWidth") /\ options.tabWidth < 0) =>
        IsErr(result)

\* the tree holds a comment whose range does not fit the source text
HasMalformed(n, src) ==
    \E i \in 1..Len(CommentsOf(n)) : ~WellFormed(CommentsOf(n)[i], src)

\* C10 (malformed comment offsets): printing, under a complete options
\* object, a tree that holds a Comment node whose range is inconsistent with
\* the source text (start > end, start < 0 or end > length) signals an error.
C10_MalformedOffsets ==
    (Called /\ Complete(options) /\ HasMalformed(node, sourceCode)) =>
        IsErr(result)

\* C11 (no trailing whitespace): in a returned string no newline character is
\* immediately preceded by a space or a tab.
C11_NoTrailingWhitespace ==
    Returned =>
        \A i \in 2..Len(result.s) :
            result.s[i] = "\n" => result.s[i - 1] \notin {" ", "\t"}

\* the number of newline characters s ends with
RECURSIVE TrailingNewlines(_)
TrailingNewlines(s) ==
    IF s # <<>> /\ s[Len(s)] = "\n"
    THEN 1 + TrailingNewlines(SubSeq(s, 1, Len(s) - 1))
    ELSE 0

\* s is made of white space only
IsBlank(s) == \A i \in 1..Len(s) : s[i] \in WhiteSpace

\* C12 (output ending): the string returned for a Program ends with at most
\* one newline, and its last line (before that newline) is not blank unless
\* the whole output is empty.
C12_OutputEnding ==
    (Returned /\ node.type = "Program") =>
        LET n == TrailingNewlines(result.s)
            text == SubSeq(result.s, 1, Len(result.s) - n)
            lines == Lines(text)
        IN  /\ n <= 1
            /\ result.s # <<>> => ~IsBlank(lines[Len(lines)])

\* a Program was printed whose body, before trimming, ends in white space: a
\* comment, or an expression statement whose expression carries lineBreak flags
C12_Witness ==
    /\ Returned
    /\ node.type = "Program" /\ node.body # <<>>
    /\ LET last == node.body[Len(node.body)]
       IN  \/ last.type = "Comment" /\ Complete(options)
           \/ /\ last.type = "ExpressionStatement"
              /\ Has(last.expression, "lineBreak")
              /\ ~HasBit(options, "commentPlacementFlag", CommentPlacementFlags.After)
    /\ result.s # <<>>

\* the lines of a rendered comment that hold text
TextLines(s) == SelectSeq(Lines(s), LAMBDA line : ~IsBlank(line))

\* C13 (comment surface form per physical line): when a Comment whose text
\* spans several physical lines is printed, then with the SingleLine format
\* every line of the rendering starts, after indentation, with `//`; with the
\* JsDoc format every continuation line starts with `*`; with the Multiline
\* and Html formats the text is enclosed once in its delimiters.
C13_SurfaceFormPerLine ==
    (/\ Returned
     /\ node.type = "Comment"
     /\ Complete(options)
     /\ Consistent(node, sourceCode)
     /\ Count(node.value, sNewline) > 0) =>
        LET lines == TextLines(result.s)
            format == options.commentFormat
        IN  CASE format = CommentFormat.SingleLine ->
                    \A i \in 1..Len(lines) : StartsAt(TrimStart(lines[i]), 1, <<"/", "/">>)
              [] format = CommentFormat.JsDoc ->
                    \A i \in 2..Len(lines) : StartsAt(TrimStart(lines[i]), 1, <<"*">>)
              [] OTHER ->
                    Trim(result.s) = Rendered(node, format)

\* the leading white space of a line
RECURSIVE LeadingWhiteSpace(_)
LeadingWhiteSpace(s) ==
    IF s # <<>> /\ s[1] \in {" ", "\t"}
    THEN <<s[1]>> \o LeadingWhiteSpace(Tail(s))
    ELSE <<>>

\* the block-nesting depth at which line i of the output starts: the opening
\* braces before it that are not closed
DepthAtLine(lines, i) ==
    LET before == [j \in 1..(i - 1) |-> lines[j]]
        opened == [j \in 1..(i - 1) |-> Count(lines[j], <<"{">>) - Count(lines[j], <<"}">>)]
        Sum[j \in 0..(i - 1)] == IF j = 0 THEN 0 ELSE Sum[j - 1] + opened[j]
    IN  Sum[i - 1]

\* the line starts with a declaration or a return statement
StartsStatement(line) ==
    \/ StartsAt(TrimStart(line), 1, sConst \o sSpace)
    \/ StartsAt(TrimStart(line), 1, sLet \o sSpace)
    \/ StartsAt(TrimStart(line), 1, sReturn)

\* C14 (indentation accumulates with nesting): in the output of a Program
\* printed with lineBreak on, a line that starts with a statement at
\* block-nesting depth k starts with exactly k indentation units; a top-level
\* statement has no indentation.
C14_IndentationAccumulates ==
    (/\ Returned
     /\ node.type = "Program"
     /\ Complete(options) /\ options.lineBreak = TRUE
     /\ CommentsOf(node) = <<>>) =>
        LET lines == Lines(result.s)
        IN  \A i \in 1..Len(lines) :
                StartsStatement(lines[i]) =>
                    LeadingWhiteSpace(lines[i])
                        = Repeat(indentation(options).s, DepthAtLine(lines, i))

\* the text of a node that prints as one token
AtomText(n) == IF n.type = "ThisExpression" THEN sThis ELSE TokenOf(n)

\* C15 (indentation unit): the indentation prefix of a print function is one
\* tab when useTabs is true, whatever tabWidth is, and tabWidth spaces when
\* useTabs is false: a node that prints as one token is that prefix followed
\* by the token; without useTabs the output holds no tab, and with useTabs the
\* white space before a statement that starts a line holds no space.
C15_IndentationUnit ==
    (Returned /\ Complete(options)) =>
        LET unit == IF options.useTabs THEN <<"\t">>
                    ELSE Repeat(<<" ">>, options.tabWidth)
            lines == Lines(result.s)
        IN  /\ node.type \in {"Identifier", "Literal", "ThisExpression"} =>
                    result.s = unit \o AtomText(node)
            /\ ~options.useTabs => Count(result.s, <<"\t">>) = 0
            /\ options.useTabs =>
                    \A i \in 1..Len(lines) :
                        StartsStatement(lines[i]) =>
                            Count(LeadingWhiteSpace(lines[i]), sSpace) = 0

C15_Witness ==
    /\ Returned /\ Complete(options)
    /\ options.useTabs /\ options.tabWidth < 0
    /\ node.type = "Identifier"
    /\ result.s = <<"\t">> \o node.name

\* the body holds declarations, returns and expression statements only, none
\* of which carries line-break flags of its own
FlatBody(n) ==
    \A i \in 1..Len(n.body) :
        \/ n.body[i].type \in {"VariableDeclaration", "ReturnStatement"}
        \/ /\ n.body[i].type = "ExpressionStatement"
           /\ ~Has(n.body[i].expression, "lineBreak")

\* C16 (lineBreak option): the newlines between the statements of a Program
\* or block body are determined by the lineBreak option: with lineBreak on
\* every statement but the last is followed by a newline, and with lineBreak
\* off the output holds no newline.
C16_LineBreakOption ==
    (/\ Returned
     /\ Complete(options)
     /\ node.type \in {"Program", "BlockStatement"}
     /\ FlatBody(node)) =>
        IF options.lineBreak
        THEN Count(result.s, sNewline) >= Len(node.body) - 1
        ELSE Count(result.s, sNewline) = 0

\* C17 (determinism over explicit inputs): a second call of prettyPrint with
\* the same node and the same options returns what the first call returned,
\* whatever the ambient source text has become in between.
C17_Determinism == pc = "again" => resultAgain = result

Openers == {"(", "[", "{"}
Closers == {")", "]", "}"}
OpenerOf(c) == IF c = ")" THEN "(" ELSE IF c = "]" THEN "[" ELSE "{"

\* the delimiters bs close, in order, the openers on the stack and those of bs
RECURSIVE Nested(_, _)
Nested(bs, stack) ==
    IF bs = <<>> THEN stack = <<>>
    ELSE IF Head(bs) \in Openers THEN Nested(Tail(bs), <<Head(bs)>> \o stack)
    ELSE /\ stack # <<>>
         /\ Head(stack) = OpenerOf(Head(bs))
         /\ Nested(Tail(bs), Tail(stack))

\* the parentheses, brackets and braces of s are balanced and properly nested
Balanced(s) == Nested(SelectSeq(s, LAMBDA c : c \in Openers \cup Closers), <<>>)

\* C18 (balanced delimiters): the output for a tree without comments has
\* balanced and properly nested parentheses, brackets and braces; the output
\* for an ObjectExpression ends with the closing brace.
C18_BalancedDelimiters ==
    (Returned /\ Complete(options) /\ CommentsOf(node) = <<>>) =>
        /\ Balanced(result.s)
        /\ node.type = "ObjectExpression" => result.s[Len(result.s)] = "}"

\* C19 (statement terminator): the output for a VariableDeclaration and for an
\* ExpressionStatement holds exactly one `;`, at the very end, whatever the
\* comment-placement options are.
C19_StatementTerminator ==
    (/\ Returned
     /\ Complete(options)
     /\ node.type \in {"VariableDeclaration", "ExpressionStatement"}) =>
        /\ Count(result.s, sSemicolon) = 1
        /\ result.s[Len(result.s)] = ";"

====
